---------------------------- MODULE Spec2Model ----------------------------
(***************************************************************************)
(* jm::memory_signature (include/memory_signature.hpp): a byte pattern     *)
(* with one wildcard byte value, its constructors, copy/move operations    *)
(* and find.                                                               *)
(*                                                                         *)
(* An object is the triple of its members: _pattern (the address held by   *)
(* the unique_ptr, NULL when it holds nothing), _end (an address) and      *)
(* _wildcard.  The free store is a map from the base address of every live *)
(* array to its contents; an array of n bytes occupies Cells(n) addresses, *)
(* so that two live arrays never have the same address, also when n = 0.   *)
(* Offsets into a searched buffer are 0-based, as last - first is.         *)
(* Bytes are the values 0..255 of unsigned char.                           *)
(*                                                                         *)
(* last records the latest operation with its arguments and its outcome.   *)
(* ub becomes TRUE when an operation has undefined behaviour (a read past  *)
(* the end of a mask, a use of [_pattern, _end) when it is no range); what *)
(* it returns is then any value, and the execution is followed no further. *)
(* Address arithmetic on unrelated arrays (operator= on self-assignment)   *)
(* is taken as plain integer arithmetic on the addresses.                  *)
(*                                                                         *)
(* Spec runs every operation on two objects, S and D, with short           *)
(* literals; SpecOne runs the constructors, the destructor and find on one *)
(* object with longer literals and buffers, among them literals in which   *)
(* every byte value occurs.                                                *)
(***************************************************************************)
EXTENDS Integers, Sequences, FiniteSets, TLC

VARIABLES objs, heap, last, ub

vars == <<objs, heap, last, ub>>

(* ------------------------------ bounds -------------------------------- *)

MaxLitLen == 1      \* longest literal and mask in Spec (two objects)
MaxPatLen == 2      \* longest literal and mask in SpecOne (one object)
MaxBufLen == 3      \* longest buffer handed to find in SpecOne
MaxTail == 1        \* longest tail appended to the covering literal in SpecOne

(* ----------------------------- constants ------------------------------ *)

NULL == 0           \* nullptr
NumValues == 256    \* std::bitset<256>
QuestionMark == 63  \* '?', the default unknown_byte_identifier

Byte == 0..(NumValues - 1)

Objs == {"S", "D"}

PatBytes == {0, 1}              \* the literal bytes drawn
BufBytes == {0, 1, 2}           \* the buffer bytes drawn in SpecOne
MaskBytes == {QuestionMark, 120} \* mask entries: '?' and 'x'

Max(a, b) == IF a >= b THEN a ELSE b

SeqsUpTo(S, n) == UNION {[1..k -> S] : k \in 0..n}

(* --------------------------- the free store --------------------------- *)

Cells(n) == Max(n, 1)

Used(h) == UNION {b..(b + Cells(Len(h[b])) - 1) : b \in DOMAIN h}

Fits(h, b, n) == (b..(b + Cells(n) - 1)) \cap Used(h) = {}

Top(h) == IF Used(h) = {} THEN 0 ELSE CHOOSE a \in Used(h) : \A c \in Used(h) : c <= a

\* new unsigned char[n]: the lowest address at which n bytes fit
Alloc(h, n) ==
    CHOOSE b \in 1..(Top(h) + 1) :
        /\ Fits(h, b, n)
        /\ \A c \in 1..(b - 1) : ~Fits(h, c, n)

Store(h, b, bytes) == [a \in DOMAIN h \cup {b} |-> IF a = b THEN bytes ELSE h[a]]

\* unique_ptr's deleter: delete[] of a non-null pointer
Free(h, b) == [a \in DOMAIN h \ {b} |-> h[a]]

(* ------------------------------ objects ------------------------------- *)

Dead == [alive |-> FALSE, pattern |-> NULL, end |-> NULL, wildcard |-> 0]

Object(p, e, w) == [alive |-> TRUE, pattern |-> p, end |-> e, wildcard |-> w]

size(o) == o.end - o.pattern

\* [_pattern, _end) is exactly the array the object owns
Owns(o, h) ==
    \/ o.pattern = NULL /\ o.end = NULL
    \/ o.pattern \in DOMAIN h /\ o.end = o.pattern + Len(h[o.pattern])

Bytes(o, h) == IF o.pattern = NULL THEN <<>> ELSE h[o.pattern]

(* ------------------------ wildcard derivation ------------------------- *)

\* the first loop of find_wildcard over the positions lo..hi of the literal,
\* in order: bits[*first] = cmp(*first).  bits is the set of values whose bit
\* is set, cmp[i] the i-th result of cmp.  The range is walked left half
\* first, then right half, which keeps the evaluation shallow.
RECURSIVE mark_bits(_, _, _, _, _)
mark_bits(lit, cmp, lo, hi, bits) ==
    IF lo > hi THEN bits
    ELSE IF lo = hi
         THEN IF cmp[lo] THEN bits \cup {lit[lo]} ELSE bits \ {lit[lo]}
    ELSE LET mid  == (lo + hi) \div 2
             done == mark_bits(lit, cmp, lo, mid, bits)
         IN  IF done \subseteq Byte   \* a bitset<256>; evaluates done first
             THEN mark_bits(lit, cmp, mid + 1, hi, done)
             ELSE done

\* first_unset with the scan ending one value early (i < 255)
RECURSIVE first_unset_short(_, _, _)
first_unset_short(bits, lo, hi) ==
    IF lo = hi THEN (IF lo \notin bits /\ lo < NumValues - 1 THEN lo ELSE NumValues)
    ELSE LET mid  == (lo + hi) \div 2
             left == first_unset_short(bits, lo, mid)
         IN  IF left < NumValues THEN left ELSE first_unset_short(bits, mid + 1, hi)

\* the second loop of find_wildcard over i in lo..hi, in order: the first i
\* with !bits[i]; NumValues when there is none (the throw follows)
RECURSIVE first_unset(_, _, _)
first_unset(bits, lo, hi) ==
    IF lo = hi THEN (IF lo \notin bits THEN lo ELSE NumValues)
    ELSE LET mid  == (lo + hi) \div 2
             left == first_unset(bits, lo, mid)
         IN  IF left < NumValues THEN left ELSE first_unset(bits, mid + 1, hi)

find_wildcard(lit, cmp) ==
    LET i == first_unset(mark_bits(lit, cmp, 1, Len(lit), {}), 0, NumValues - 1)
    IN  IF i < NumValues THEN [thrown |-> FALSE, value |-> i]
        ELSE [thrown |-> TRUE, value |-> 0]

\* cmp ignores its argument and reads the next mask entry: *mask_first++ != unknown.
\* One entry is read per literal byte; mask holds the entries as they are read.
find_wildcard_masked(lit, mask, unknown) ==
    find_wildcard(lit, [i \in 1..Len(lit) |-> mask[i] # unknown])

masked_to_wilcard(lit, mask, unknown, wildcard) ==
    [i \in 1..Len(lit) |-> IF mask[i] # unknown THEN lit[i] ELSE wildcard]

(* ------------------------------- search ------------------------------- *)

\* pred with the wildcard test on the wrong side
pred_lhs_wildcard(lhs, rhs, wildcard) == lhs = rhs \/ lhs = wildcard

\* the predicate handed to std::search: lhs from the buffer, rhs from the pattern
pred(lhs, rhs, wildcard) == lhs = rhs \/ rhs = wildcard

\* window reporting a match when the buffer ends inside the window
RECURSIVE window_prefix(_, _, _, _, _, _)
window_prefix(buf, pat, wildcard, first, i, hi) ==
    IF i = Len(pat) \/ (first + i = Len(buf) /\ i > 0) THEN [out |-> "match", hi |-> hi]
    ELSE IF first + i = Len(buf) THEN [out |-> "last", hi |-> hi]
    ELSE IF ~pred(buf[first + i + 1], pat[i + 1], wildcard)
         THEN [out |-> "break", hi |-> Max(hi, first + i + 1)]
    ELSE window_prefix(buf, pat, wildcard, first, i + 1, Max(hi, first + i + 1))

\* std::search's inner loop for the window starting at offset first; i is the
\* number of elements matched so far, hi the number of buffer elements
\* [0, hi) dereferenced so far
RECURSIVE window(_, _, _, _, _, _)
window(buf, pat, wildcard, first, i, hi) ==
    IF i = Len(pat) THEN [out |-> "match", hi |-> hi]
    ELSE IF first + i = Len(buf) THEN [out |-> "last", hi |-> hi]
    ELSE IF ~pred(buf[first + i + 1], pat[i + 1], wildcard)
         THEN [out |-> "break", hi |-> Max(hi, first + i + 1)]
    ELSE window(buf, pat, wildcard, first, i + 1, Max(hi, first + i + 1))

\* std::search's outer loop: ++first until a window matches or runs into last
RECURSIVE search(_, _, _, _, _)
search(buf, pat, wildcard, first, hi) ==
    LET w == window(buf, pat, wildcard, first, 0, hi)
    IN  CASE w.out = "match" -> [pos |-> first, hi |-> w.hi]
          [] w.out = "last"  -> [pos |-> Len(buf), hi |-> w.hi]
          [] OTHER           -> search(buf, pat, wildcard, first + 1, w.hi)

\* find without the test for an empty signature
find_no_empty_test(me, h, buf) ==
    search(buf, (IF me.pattern = NULL THEN <<>> ELSE h[me.pattern]), me.wildcard, 0, 0)

\* find(first, last) of an object whose [_pattern, _end) is empty or its array:
\* pos is the offset of the iterator returned, Len(buf) being last
find(me, h, buf) ==
    IF me.pattern = me.end THEN [pos |-> Len(buf), hi |-> 0]
    ELSE search(buf, h[me.pattern], me.wildcard, 0, 0)

(* --------------------------- the operations --------------------------- *)

\* what the last operation was, its arguments and its outcome
None ==
    [op |-> "none", obj |-> "", src |-> "", lit |-> <<>>, mask |-> <<>>,
     unknown |-> 0, err |-> "", maskReads |-> 0, buf |-> <<>>, res |-> 0,
     hi |-> 0, preBytes |-> <<>>, preWildcard |-> 0, preOwns |-> FALSE]

WildArgs == {0, 1, NumValues + 1}   \* wildcard arguments, one of them wider than a byte

\* the source of a copy or a move, as it was before the operation
Pre(op, d, s) ==
    [None EXCEPT !.op = op, !.obj = d, !.src = s,
                 !.preBytes = Bytes(objs[s], heap),
                 !.preWildcard = objs[s].wildcard,
                 !.preOwns = Owns(objs[s], heap)]

\* memory_signature()
DefaultConstruct(o) ==
    /\ ~ub /\ ~objs[o].alive
    /\ objs' = [objs EXCEPT ![o] = Object(NULL, NULL, 0)]
    /\ last' = [None EXCEPT !.op = "default", !.obj = o]
    /\ UNCHANGED <<heap, ub>>

\* memory_signature(pattern, wildcard), from a string or an initializer_list
WildcardConstruct(o, lit, w) ==
    /\ ~ub /\ ~objs[o].alive
    /\ LET base == Alloc(heap, Len(lit))
       IN  /\ heap' = Store(heap, base, lit)
           /\ objs' = [objs EXCEPT ![o] = Object(base, base + Len(lit), w % NumValues)]
    /\ last' = [None EXCEPT !.op = "wildcard", !.obj = o, !.lit = lit]
    /\ UNCHANGED ub

\* memory_signature(pattern, mask, unknown_byte_identifier).  The member
\* initialisers run first: the array, _end, then _wildcard from
\* find_wildcard_masked, which reads one mask entry per literal byte; an entry
\* past the end of the mask is whatever lies there (beyond).  The body then
\* compares the sizes and rewrites the pattern.  A throw destroys _pattern.
MaskedConstruct(o, lit, mask, unknown, beyond) ==
    /\ ~ub /\ ~objs[o].alive
    /\ Len(beyond) = Max(Len(lit) - Len(mask), 0)
    /\ \E wc \in {find_wildcard_masked(lit, mask \o beyond, unknown)} :
          LET base == Alloc(heap, Len(lit))
              err  == IF wc.thrown THEN "range_error"
                      ELSE IF Len(lit) # Len(mask) THEN "invalid_argument"
                      ELSE ""
          IN  /\ IF err = ""
                 THEN /\ heap' = Store(heap, base,
                                       masked_to_wilcard(lit, mask, unknown, wc.value))
                      /\ objs' = [objs EXCEPT ![o] = Object(base, base + Len(lit), wc.value)]
                 ELSE UNCHANGED <<heap, objs>>
              /\ last' = [None EXCEPT !.op = "masked", !.obj = o, !.lit = lit,
                                      !.mask = mask, !.unknown = unknown,
                                      !.err = err, !.maskReads = Len(lit)]
    /\ ub' = (Len(lit) > Len(mask))

\* memory_signature(const memory_signature &other)
CopyConstruct(d, s) ==
    /\ ~ub /\ ~objs[d].alive /\ objs[s].alive
    /\ last' = Pre("copy", d, s)
    /\ LET other == objs[s]
           n     == size(other)
       IN  \/ /\ n = 0 \/ Owns(other, heap)
              /\ LET base == Alloc(heap, n)
                     data == IF n = 0 THEN <<>> ELSE heap[other.pattern]
                 IN  /\ heap' = Store(heap, base, data)
                     /\ objs' = [objs EXCEPT ![d] = Object(base, base + n, other.wildcard)]
              /\ UNCHANGED ub
           \/ \* [other._pattern, other._end) is no range: undefined
              /\ n # 0 /\ ~Owns(other, heap)
              /\ ub' = TRUE
              /\ UNCHANGED <<heap, objs>>

\* operator=(const memory_signature &other); d = s is self-assignment.
\* other.size() is evaluated again after _pattern has been replaced.
CopyAssign(d, s) ==
    /\ ~ub /\ objs[d].alive /\ objs[s].alive
    /\ last' = Pre("copy_assign", d, s)
    /\ LET n == size(objs[s])
       IN  \/ /\ n = 0 \/ Owns(objs[s], heap)
              /\ LET base  == Alloc(heap, n)
                     data  == IF n = 0 THEN <<>> ELSE heap[objs[s].pattern]
                     old   == objs[d].pattern
                     h1    == Store(heap, base, data)
                     objs1 == [objs EXCEPT ![d].pattern = base]
                 IN  /\ heap' = IF old # NULL THEN Free(h1, old) ELSE h1
                     /\ objs' = [objs1 EXCEPT ![d].end = base + size(objs1[s]),
                                              ![d].wildcard = objs1[s].wildcard]
              /\ UNCHANGED ub
           \/ /\ n # 0 /\ ~Owns(objs[s], heap)
              /\ ub' = TRUE
              /\ UNCHANGED <<heap, objs>>

\* memory_signature(memory_signature &&other)
MoveConstruct(d, s) ==
    /\ ~ub /\ ~objs[d].alive /\ objs[s].alive
    /\ last' = Pre("move", d, s)
    /\ objs' = [objs EXCEPT ![d] = Object(objs[s].pattern, objs[s].end, objs[s].wildcard),
                            ![s].pattern = NULL]
    /\ UNCHANGED <<heap, ub>>

\* operator=(memory_signature &&other): unique_ptr's move assignment is
\* reset(other.release()), then _end and _wildcard are copied
MoveAssign(d, s) ==
    /\ ~ub /\ objs[d].alive /\ objs[s].alive
    /\ last' = Pre("move_assign", d, s)
    /\ LET p     == objs[s].pattern
           objs1 == [objs EXCEPT ![s].pattern = NULL]
           old   == objs1[d].pattern
           objs2 == [objs1 EXCEPT ![d].pattern = p]
       IN  /\ heap' = IF old # NULL THEN Free(heap, old) ELSE heap
           /\ objs' = [objs2 EXCEPT ![d].end = objs2[s].end,
                                    ![d].wildcard = objs2[s].wildcard]
    /\ UNCHANGED ub

\* ~memory_signature()
Destroy(o) ==
    /\ ~ub /\ objs[o].alive
    /\ heap' = IF objs[o].pattern # NULL THEN Free(heap, objs[o].pattern) ELSE heap
    /\ objs' = [objs EXCEPT ![o] = Dead]
    /\ last' = [None EXCEPT !.op = "destroy", !.obj = o]
    /\ UNCHANGED ub

\* find(first, last) over the buffer buf
Find(o, buf) ==
    /\ ~ub /\ objs[o].alive
    /\ UNCHANGED <<objs, heap>>
    /\ LET me == objs[o]
           l  == [None EXCEPT !.op = "find", !.obj = o, !.buf = buf]
       IN  \/ /\ me.pattern = me.end \/ Owns(me, heap)
              /\ LET r == find(me, heap, buf)
                 IN  last' = [l EXCEPT !.res = r.pos, !.hi = r.hi]
              /\ UNCHANGED ub
           \/ \* [_pattern, _end) is no range: std::search on it is undefined
              /\ me.pattern # me.end /\ ~Owns(me, heap)
              /\ \E r \in 0..Len(buf) : last' = [l EXCEPT !.res = r]
              /\ ub' = TRUE

Init ==
    /\ objs = [o \in Objs |-> Dead]
    /\ heap = <<>>
    /\ last = None
    /\ ub = FALSE

\* the literals, masks and buffers drawn while two objects are copied and moved
Lits == SeqsUpTo(PatBytes, MaxLitLen)

Masks == SeqsUpTo(MaskBytes, MaxLitLen)

Bufs == {<<>>, <<0>>, <<1, 0>>}

\* what is read past the end of a mask shorter than the literal
Beyond(lit, mask) == [1..Max(Len(lit) - Len(mask), 0) -> MaskBytes]

Next ==
    \/ \E o \in Objs : DefaultConstruct(o)
    \/ \E o \in Objs, lit \in Lits, w \in WildArgs : WildcardConstruct(o, lit, w)
    \/ \E o \in Objs, lit \in Lits, mask \in Masks :
          \E beyond \in Beyond(lit, mask) :
             MaskedConstruct(o, lit, mask, QuestionMark, beyond)
    \/ \E d, s \in Objs : CopyConstruct(d, s)
    \/ \E d, s \in Objs : CopyAssign(d, s)
    \/ \E d, s \in Objs : MoveConstruct(d, s)
    \/ \E d, s \in Objs : MoveAssign(d, s)
    \/ \E o \in Objs : Destroy(o)
    \/ \E o \in Objs, buf \in Bufs : Find(o, buf)

Spec == Init /\ [][Next]_vars

(* ------------- one object, longer literals and buffers ---------------- *)

\* a literal in which every byte value occurs: 0, 1, ..., 255
Cover == [i \in 1..NumValues |-> i - 1]

\* masks of Cover: every entry 'x', or every entry but the last
CoverMasks ==
    {[i \in 1..NumValues |-> IF i = h THEN QuestionMark ELSE 120] :
        h \in {0, NumValues}}

TailBytes == {0, 1, NumValues - 1}

\* Cover followed by a short tail, with a mask as long, or longer by one 'x'
LongInputs ==
    UNION {{<<Cover \o t, cm \o tm \o extra>> :
               cm \in CoverMasks, tm \in [1..Len(t) -> MaskBytes],
               extra \in {<<>>, <<120>>}} :
           t \in SeqsUpTo(TailBytes, MaxTail)}

\* a masked construction from one of the long inputs
MaskedLong(o) ==
    /\ ~ub /\ ~objs[o].alive
    /\ \E in \in LongInputs : MaskedConstruct(o, in[1], in[2], QuestionMark, <<>>)

\* a masked construction from a short literal and a short mask of any length
MaskedShort(o) ==
    /\ ~ub /\ ~objs[o].alive
    /\ \E lit \in SeqsUpTo(PatBytes, MaxPatLen), mask \in SeqsUpTo(MaskBytes, MaxPatLen) :
          \E beyond \in Beyond(lit, mask) :
             MaskedConstruct(o, lit, mask, QuestionMark, beyond)

NextOne ==
    \/ DefaultConstruct("S")
    \/ \E lit \in SeqsUpTo(PatBytes, MaxPatLen), w \in WildArgs :
          WildcardConstruct("S", lit, w)
    \/ MaskedShort("S")
    \/ MaskedLong("S")
    \/ Destroy("S")
    \/ \E buf \in SeqsUpTo(BufBytes, MaxBufLen) : Find("S", buf)

SpecOne == Init /\ [][NextOne]_vars

(* ------------------------------ properties ---------------------------- *)

\* the object the last operation was applied to (the destination of a copy or move)
Obj == objs[last.obj]

Src == objs[last.src]

\* position i of the literal of the last masked construction must match exactly
Known(i) == last.mask[i] # last.unknown

\* the window of buf at offset k matches pat under wildcard w
MatchesAt(buf, pat, w, k) ==
    \A i \in 1..Len(pat) : pat[i] = buf[k + i] \/ pat[i] = w

MatchOffsets(buf, pat, w) ==
    {k \in 0..(Len(buf) - Len(pat)) : MatchesAt(buf, pat, w, k)}

C2_MaskSemantics ==
    (/\ last.op = "masked" /\ last.err = ""
     /\ Len(last.lit) = Len(last.mask) /\ Len(last.lit) \in 1..MaxPatLen) =>
        \A w \in [1..Len(last.lit) -> BufBytes] :
            (find(Obj, heap, w).pos = 0) <=>
                (\A i \in 1..Len(last.lit) : Known(i) => w[i] = last.lit[i])

\* C3: the wildcard derived by a masked construction is no literal byte that
\* stands at a known position.
C3_WildcardNotKnown ==
    (last.op = "masked" /\ last.err = "" /\ Len(last.lit) = Len(last.mask)) =>
        \A i \in 1..Len(last.lit) : Known(i) => last.lit[i] # Obj.wildcard

\* C4: a masked construction from a literal and a mask of different lengths
\* fails with the length-mismatch error, builds no object, and reads no mask
\* entry past the end of the mask.
C4_LengthCheckedFirst ==
    (last.op = "masked" /\ Len(last.lit) # Len(last.mask)) =>
        /\ last.err = "invalid_argument"
        /\ ~Obj.alive
        /\ last.maskReads <= Len(last.mask)

\* every byte value stands at a known position of the last masked construction
AllValuesKnown ==
    \A v \in Byte : \E i \in 1..Len(last.lit) : Known(i) /\ last.lit[i] = v

\* C5: a masked construction (equal lengths) in which every byte value 0..255
\* stands at a known position fails with the unrepresentable-wildcard error
\* and builds no object.
C5_FullCoverFails ==
    (last.op = "masked" /\ Len(last.lit) = Len(last.mask) /\ AllValuesKnown) =>
        last.err = "range_error" /\ ~Obj.alive

\* C6: find of an empty pattern returns the buffer's end for every buffer,
\* never offset 0 of a non-empty buffer.
C6_EmptyNotFound ==
    (last.op = "find" /\ Owns(Obj, heap) /\ Bytes(Obj, heap) = <<>>) =>
        last.res = Len(last.buf) /\ ~ub

\* C6 witness: an empty pattern that holds a zero-length array (so not a
\* default-constructed one) searched in a non-empty buffer
C6_Witness ==
    /\ last.op = "find" /\ Owns(Obj, heap) /\ Bytes(Obj, heap) = <<>>
    /\ Obj.pattern # NULL /\ Len(last.buf) >= 1 /\ last.res = Len(last.buf)

\* C7: after a move from S into another object D, S is empty (its end marker
\* coincides with its absent buffer), D holds S's former bytes and wildcard,
\* and the two do not refer to the same buffer.
C7_MovedFromEmpty ==
    (last.op \in {"move", "move_assign"} /\ last.src # last.obj /\ last.preOwns) =>
        /\ Src.pattern = NULL /\ size(Src) = 0
        /\ Owns(Obj, heap) /\ Bytes(Obj, heap) = last.preBytes
        /\ Obj.wildcard = last.preWildcard
        /\ Obj.pattern # NULL => Obj.pattern # Src.pattern

\* C8: after a copy (construction or assignment, self-assignment included) D
\* has the bytes, length and wildcard S had, in a buffer of its own, and S is
\* unchanged.
C8_CopyEquivalent ==
    (last.op \in {"copy", "copy_assign"} /\ last.preOwns) =>
        /\ ~ub
        /\ Owns(Obj, heap) /\ Bytes(Obj, heap) = last.preBytes
        /\ size(Obj) = Len(last.preBytes)
        /\ Obj.wildcard = last.preWildcard
        /\ Owns(Src, heap) /\ Bytes(Src, heap) = last.preBytes
        /\ Src.wildcard = last.preWildcard
        /\ last.src # last.obj => Obj.pattern # Src.pattern

\* C9: find over a buffer shorter than the pattern returns the buffer's end
\* and reads nothing outside the buffer.
C9_ShortBufferNotFound ==
    (last.op = "find" /\ Owns(Obj, heap) /\ Len(last.buf) < size(Obj)) =>
        /\ last.res = Len(last.buf)
        /\ last.hi <= Len(last.buf)
        /\ ~ub

\* C9 witness: a pattern of two wildcard positions over a one-byte buffer
C9_Witness ==
    /\ last.op = "find" /\ Owns(Obj, heap) /\ size(Obj) = 2
    /\ \A i \in 1..2 : Bytes(Obj, heap)[i] = Obj.wildcard
    /\ Len(last.buf) = 1 /\ last.res = 1

\* the table entry of v after find_wildcard's first loop: the last position
\* holding v is a known one
Marked(v) ==
    \E i \in 1..Len(last.lit) :
        /\ last.lit[i] = v /\ Known(i)
        /\ \A j \in (i + 1)..Len(last.lit) : last.lit[j] # v

\* C10: derivation (equal lengths) fails only when every byte value stands at
\* a known position, so at 256 known positions or more; otherwise it returns
\* the smallest value whose table entry is unmarked.
C10_FailsOnlyWhenFull ==
    (last.op = "masked" /\ Len(last.lit) = Len(last.mask)) =>
        IF last.err = "range_error"
        THEN /\ AllValuesKnown
             /\ Cardinality({i \in 1..Len(last.lit) : Known(i)}) >= NumValues
        ELSE /\ last.err = "" /\ Obj.alive
             /\ ~Marked(Obj.wildcard)
             /\ \A v \in 0..(Obj.wildcard - 1) : Marked(v)

\* C10 witness: the derivation fails on a literal longer than 256 bytes
C10_Witness ==
    /\ last.op = "masked" /\ Len(last.lit) = Len(last.mask)
    /\ last.err = "range_error" /\ Len(last.lit) > NumValues

=============================================================================
